---- MODULE Spec2Model ----
(***************************************************************************)
(* A model of src/main.py: a SQLite store with two tables (customers,      *)
(* orders), the write path that fills it (load_customers, load_orders,     *)
(* seed_db), the fixed catalog of analytical queries, and the transaction  *)
(* demonstration of run_demo.                                              *)
(*                                                                         *)
(* What is kept of the engine: rowid allocation of INTEGER PRIMARY KEY     *)
(* columns, the UNIQUE, CHECK and FOREIGN KEY constraints of the schema,   *)
(* statement-level abort of a failing INSERT, and the commit / rollback of *)
(* Python's "with conn:" block.  Amounts (REAL in the schema) are whole    *)
(* numbers; dates are <<year, month, day>> triples in place of the text    *)
(* 'YYYY-MM-DD'; signup_date, which no statement of the program reads, is  *)
(* left out of the customer rows.                                          *)
(***************************************************************************)
EXTENDS Integers, Sequences, FiniteSets, TLC

VARIABLES
    schema,     \* names of the tables that exist in the database file
    indexes,    \* names of the secondary indexes that exist
    customers,  \* committed rows of table customers
    orders,     \* committed rows of table orders
    results,    \* what the last run_demo read: the four query results and the city count
    last        \* the last handler that ran, its arguments in summary, and its outcome

vars == <<schema, indexes, customers, orders, results, last>>

(***************************************************************************)
(* Bounds of the model.                                                    *)
(***************************************************************************)
MaxCustomers == 2       \* rows the write-path specification lets table customers hold
MaxOrders == 1          \* rows the write-path specification lets table orders hold
MaxBatch == 2           \* longest batch handed to load_customers / load_orders
MaxManyCustomers == 12  \* customers of the largest store the query catalog is run on
MaxMixedCustomers == 4  \* customers of the stores with the full range of order profiles

(***************************************************************************)
(* Values.                                                                 *)
(***************************************************************************)
NULL == "NULL"

\* The cities of CITIES without the two spelt with non-ASCII letters.
CITIES == {"Santiago", "Concepcion", "La Serena", "Antofagasta"}
CATEGORIES == {"Electronics", "Groceries", "Books", "Home", "Sports", "Beauty"}
STATUSES == {"PAID", "CANCELLED", "REFUNDED"}

\* SQLite's BINARY collation on the text values above; NULL sorts first.
CityCollation == <<NULL, "Antofagasta", "Concepcion", "La Serena", "Santiago">>
CategoryCollation == <<"Beauty", "Books", "Electronics", "Groceries", "Home", "Sports">>

RECURSIVE IndexOf(_, _, _)
IndexOf(seq, x, i) ==
    IF i > Len(seq) THEN 0
    ELSE IF seq[i] = x THEN i ELSE IndexOf(seq, x, i + 1)

Max(S) == CHOOSE x \in S : \A y \in S : y <= x

(***************************************************************************)
(* connect: every connection of the program turns foreign keys on.         *)
(***************************************************************************)
connect_NoPragma == [foreign_keys |-> FALSE]

connect == [foreign_keys |-> TRUE]

(***************************************************************************)
(* SCHEMA and create_schema.  A store is the record                        *)
(* [schema, indexes, customers, orders].                                   *)
(***************************************************************************)
EmptyStore == [schema |-> {}, indexes |-> {}, customers |-> {}, orders |-> {}]

Store == [schema |-> schema, indexes |-> indexes,
          customers |-> customers, orders |-> orders]

\* CREATE TABLE name: with IF NOT EXISTS an existing table is left alone;
\* without it the statement is an error.
CreateTable(st, name, if_not_exists) ==
    IF name \in st.schema
    THEN [error |-> IF if_not_exists THEN "none" ELSE "OperationalError", st |-> st]
    ELSE [error |-> "none", st |-> [st EXCEPT !.schema = @ \cup {name}]]

SCHEMA_NoIfNotExists == <<[table |-> "customers", if_not_exists |-> FALSE],
                          [table |-> "orders", if_not_exists |-> FALSE]>>

\* The two CREATE TABLE IF NOT EXISTS statements of SCHEMA, in order.
SCHEMA == <<[table |-> "customers", if_not_exists |-> TRUE],
            [table |-> "orders", if_not_exists |-> TRUE]>>

RECURSIVE executescript(_, _, _)
\* Runs the statements of a script in order and stops at the first error.
executescript(st, script, i) ==
    IF i > Len(script) THEN [error |-> "none", st |-> st]
    ELSE LET r == CreateTable(st, script[i].table, script[i].if_not_exists)
         IN  IF r.error # "none" THEN r ELSE executescript(r.st, script, i + 1)

create_schema(st) == executescript(st, SCHEMA, 1)

\* CHECK(status IN ('PAID','CANCELLED','REFUNDED')) of table orders.
StatusCheck_None(status) == TRUE

StatusCheck(status) == status \in {"PAID", "CANCELLED", "REFUNDED"}

(***************************************************************************)
(* INSERT.  customer_id and order_id are INTEGER PRIMARY KEY without       *)
(* AUTOINCREMENT: an insert that names no id gets the largest id of the    *)
(* table plus one, and 1 in an empty table.                                *)
(***************************************************************************)
NextRowid(ids) == IF ids = {} THEN 1 ELSE Max(ids) + 1

CustomerIds(st) == {c.customer_id : c \in st.customers}

\* INSERT INTO customers(first_name,last_name,email,city,signup_date):
\* email is UNIQUE.
InsertCustomer(st, row) ==
    IF "customers" \notin st.schema
    THEN [error |-> "OperationalError", st |-> st]
    ELSE IF \E c \in st.customers : c.email = row.email
    THEN [error |-> "UNIQUE", st |-> st]
    ELSE [error |-> "none",
          st |-> [st EXCEPT !.customers = @ \cup
                    {[customer_id |-> NextRowid(CustomerIds(st)),
                      first_name |-> row.first_name,
                      last_name |-> row.last_name,
                      email |-> row.email,
                      city |-> row.city]}]]

\* INSERT INTO orders(customer_id,order_date,category,amount,status): the
\* CHECK on status is tested when the row is built, the foreign key (when
\* the connection enforces foreign keys) when the statement ends.
InsertOrder(conn, st, row) ==
    IF "orders" \notin st.schema
    THEN [error |-> "OperationalError", st |-> st]
    ELSE IF ~StatusCheck(row.status)
    THEN [error |-> "CHECK", st |-> st]
    ELSE IF conn.foreign_keys /\ row.customer_id \notin CustomerIds(st)
    THEN [error |-> "FOREIGN KEY", st |-> st]
    ELSE [error |-> "none",
          st |-> [st EXCEPT !.orders = @ \cup
                    {[order_id |-> NextRowid({o.order_id : o \in st.orders}),
                      customer_id |-> row.customer_id,
                      order_date |-> row.order_date,
                      category |-> row.category,
                      amount |-> row.amount,
                      status |-> row.status]}]]

Insert(conn, table, st, row) ==
    IF table = "customers" THEN InsertCustomer(st, row)
    ELSE InsertOrder(conn, st, row)

RECURSIVE executemany(_, _, _, _, _)
\* conn.executemany(INSERT, rows): one INSERT per row, in order, all inside
\* the transaction the first of them opens.  A failing INSERT is undone by
\* itself and ends the call; the rows before it stay in the open
\* transaction.  failed_at is the position of the failing row, 0 for none.
executemany(conn, table, st, rows, i) ==
    IF i > Len(rows) THEN [error |-> "none", failed_at |-> 0, st |-> st]
    ELSE LET r == Insert(conn, table, st, rows[i])
         IN  IF r.error # "none"
             THEN [error |-> r.error, failed_at |-> i, st |-> st]
             ELSE executemany(conn, table, r.st, rows, i + 1)

\* "with conn:" around a block that started at store `before` and ended as
\* `res`: commit when the block raised nothing, rollback when it raised.
with_conn_NoRollback(before, res) == res.st

with_conn(before, res) == IF res.error = "none" THEN res.st ELSE before

load_customers(conn, st, rows) ==
    LET res == executemany(conn, "customers", st, rows, 1)
    IN  [error |-> res.error, failed_at |-> res.failed_at, st |-> with_conn(st, res)]

load_orders(conn, st, rows) ==
    LET res == executemany(conn, "orders", st, rows, 1)
    IN  [error |-> res.error, failed_at |-> res.failed_at, st |-> with_conn(st, res)]

(***************************************************************************)
(* The query catalog SQL.  A result is the sequence of its rows.           *)
(***************************************************************************)
TopLimit == 10     \* LIMIT 10 of top_customers
RankLimit == 3     \* WHERE rn <= 3 of window_rank_in_city

\* SQL leaves the order of rows with equal sort keys to the engine.  The
\* model lets the engine return them by ascending or by descending
\* customer_id; a run of the catalog draws one of the two.
TieOrders == {"asc", "desc"}

TieKey(tie, id) == IF tie = "asc" THEN id ELSE 0 - id

\* The row a LEFT JOIN pairs with a customer that has no order.
NullOrder == [order_id |-> NULL, customer_id |-> NULL, order_date |-> NULL,
              category |-> NULL, amount |-> NULL, status |-> NULL]

Joined_Left(st) ==
    {j \in {[c |-> c, o |-> o] : c \in st.customers, o \in st.orders} :
        j.o.customer_id = j.c.customer_id}
    \cup {[c |-> c, o |-> NullOrder] :
            c \in {x \in st.customers :
                     \A o \in st.orders : o.customer_id # x.customer_id}}

\* FROM customers c JOIN orders o ON o.customer_id = c.customer_id
Joined(st) ==
    LET pairs == {[c |-> c, o |-> o] : c \in st.customers, o \in st.orders}
    IN  {j \in pairs : j.o.customer_id = j.c.customer_id}

CaseAmount_All(o) == IF o.status = NULL THEN 0 ELSE o.amount

\* CASE WHEN o.status='PAID' THEN o.amount ELSE 0 END
CaseAmount(o) == IF o.status = "PAID" THEN o.amount ELSE 0

RECURSIVE SumCase(_)
\* SUM(CASE ...) over the order rows of one group.
SumCase(os) ==
    IF os = {} THEN 0
    ELSE LET o == CHOOSE x \in os : TRUE
         IN  CaseAmount(o) + SumCase(os \ {o})

\* c.first_name || ' ' || c.last_name
CustomerName(c) == c.first_name \o " " \o c.last_name

\* strftime('%Y-%m', o.order_date): the year and the month of the date.
YearMonth(date) == SubSeq(date, 1, 2)

RECURSIVE LexLess(_, _)
\* Lexicographic order of two tuples of integers of the same length.
LexLess(a, b) ==
    IF Len(a) = 0 THEN FALSE
    ELSE IF a[1] # b[1] THEN a[1] < b[1]
    ELSE LexLess(Tail(a), Tail(b))

RECURSIVE OrderBy(_, _)
\* The rows of S as a sequence, ascending by key[row].
OrderBy(S, key) ==
    IF S = {} THEN <<>>
    ELSE LET first == CHOOSE x \in S : \A y \in S : ~LexLess(key[y], key[x])
         IN  <<first>> \o OrderBy(S \ {first}, key)

Limit(seq, n) == IF Len(seq) <= n THEN seq ELSE SubSeq(seq, 1, n)

CityKey(city) == IndexOf(CityCollation, city, 1)
CategoryKey(category) == IndexOf(CategoryCollation, category, 1)

top_customers(st, tie) ==
    LET J == Joined(st)
        \* GROUP BY c.customer_id, customer, c.city
        groups == {[customer_id |-> j.c.customer_id,
                    customer |-> CustomerName(j.c),
                    city |-> j.c.city] : j \in J}
        Row(g) == [customer_id |-> g.customer_id,
                   customer |-> g.customer,
                   city |-> g.city,
                   revenue |-> SumCase({j.o : j \in
                        {x \in J : /\ x.c.customer_id = g.customer_id
                                   /\ CustomerName(x.c) = g.customer
                                   /\ x.c.city = g.city}})]
        \* HAVING revenue > 0
        having == {r \in {Row(g) : g \in groups} : r.revenue > 0}
        \* ORDER BY revenue DESC
        key == [r \in having |-> <<0 - r.revenue, TieKey(tie, r.customer_id)>>]
    IN  Limit(OrderBy(having, key), TopLimit)

monthly_revenue(st) ==
    LET \* GROUP BY ym
        groups == {YearMonth(o.order_date) : o \in st.orders}
        Row(ym) == [ym |-> ym,
                    revenue |-> SumCase({o \in st.orders :
                                            YearMonth(o.order_date) = ym})]
        rows == {Row(ym) : ym \in groups}
        \* ORDER BY ym
        key == [r \in rows |-> r.ym]
    IN  OrderBy(rows, key)

category_city_matrix(st) ==
    LET J == Joined(st)
        \* GROUP BY c.city, o.category
        groups == {[city |-> j.c.city, category |-> j.o.category] : j \in J}
        Row(g) == [city |-> g.city,
                   category |-> g.category,
                   revenue |-> SumCase({j.o : j \in
                        {x \in J : /\ x.c.city = g.city
                                   /\ x.o.category = g.category}})]
        rows == {Row(g) : g \in groups}
        \* ORDER BY c.city, o.category
        key == [r \in rows |-> <<CityKey(r.city), CategoryKey(r.category)>>]
    IN  OrderBy(rows, key)

\* RANK(): rows of equal revenue share a number.
WindowNumber_Rank(r, partition, tie) ==
    1 + Cardinality({x \in partition : x.revenue > r.revenue})

\* ROW_NUMBER() OVER (PARTITION BY c.city ORDER BY SUM(...) DESC): one more
\* than the number of rows of the partition that come before r.
WindowNumber(r, partition, tie) ==
    1 + Cardinality({x \in partition :
            LexLess(<<0 - x.revenue, TieKey(tie, x.customer_id)>>,
                    <<0 - r.revenue, TieKey(tie, r.customer_id)>>)})

window_rank_in_city(st, tie) ==
    LET J == Joined(st)
        \* GROUP BY c.city, c.customer_id
        groups == {[city |-> j.c.city, customer_id |-> j.c.customer_id] : j \in J}
        Inner(g) ==
            LET js == {x \in J : /\ x.c.city = g.city
                                 /\ x.c.customer_id = g.customer_id}
            IN  [city |-> g.city,
                 customer_id |-> g.customer_id,
                 customer |-> CustomerName((CHOOSE x \in js : TRUE).c),
                 revenue |-> SumCase({j.o : j \in js})]
        inner == {Inner(g) : g \in groups}
        t == {[city |-> r.city, customer |-> r.customer, revenue |-> r.revenue,
               customer_id |-> r.customer_id,
               rn |-> WindowNumber(r, {x \in inner : x.city = r.city}, tie)]
              : r \in inner}
        \* WHERE rn <= 3
        kept == {r \in t : r.rn <= RankLimit}
        \* ORDER BY city, rn (customer_id settles rows the two leave equal)
        key == [r \in kept |-> <<CityKey(r.city), r.rn, r.customer_id>>]
        sorted == OrderBy(kept, key)
    IN  \* SELECT city, customer, revenue, rn
        [i \in 1..Len(sorted) |->
            [city |-> sorted[i].city, customer |-> sorted[i].customer,
             revenue |-> sorted[i].revenue, rn |-> sorted[i].rn]]

(***************************************************************************)
(* Synthetic data.  The generator's draws are the nondeterminism of the    *)
(* model: make_customers and make_orders are the sets of the row lists a   *)
(* call may return, over the samples of the value lists named below.       *)
(***************************************************************************)
\* f"user{i}@example.com"
Email(i) == "user" \o ToString(i) \o "@example.com"

SeedFirstNames == {"Ana"}
SeedLastNames == {"Soto"}
SeedCities == {"Santiago"}
SeedStatuses == {"PAID", "CANCELLED"}
SeedDates == {<<2024, 1, 15>>}
SeedCategories == {"Books"}
SeedAmounts == {10}

make_customers(n) ==
    {[i \in 1..n |-> [first_name |-> d[i].first_name,
                      last_name |-> d[i].last_name,
                      email |-> Email(i - 1),
                      city |-> d[i].city]] :
        d \in [1..n -> [first_name : SeedFirstNames,
                        last_name : SeedLastNames,
                        city : SeedCities]]}

OrderCustomerIds_FromZero(n_customers) == 0..n_customers

\* rng.integers(1, n_customers + 1): the upper end is exclusive.
OrderCustomerIds(n_customers) == 1..n_customers

\* The draw of a customer id raises ValueError when there is none to draw.
make_orders_raises(n, n_customers) == n > 0 /\ OrderCustomerIds(n_customers) = {}

make_orders(n, n_customers) ==
    [1..n -> [customer_id : OrderCustomerIds(n_customers),
              order_date : SeedDates,
              category : SeedCategories,
              amount : SeedAmounts,
              status : SeedStatuses]]

(***************************************************************************)
(* seed_db.  SeedStops is the part before any row is drawn: the count and  *)
(* the early return.  seed_db is the rest, as a function of the store and  *)
(* of the rows drawn.                                                      *)
(***************************************************************************)
SeedGuard_Orders(st) == Cardinality(st.orders) > 0

\* SELECT COUNT(*) FROM customers; ... > 0
SeedGuard(st) == Cardinality(st.customers) > 0

SeedStops(st) == "customers" \notin st.schema \/ SeedGuard(st)

seed_db(st, n_customers, n_orders, customer_rows, order_rows) ==
    LET c == load_customers(connect, st, customer_rows)
    IN  IF c.error # "none"
        THEN [error |-> c.error, failed_at |-> c.failed_at, st |-> c.st]
        ELSE IF make_orders_raises(n_orders, n_customers)
        THEN [error |-> "ValueError", failed_at |-> 0, st |-> c.st]
        ELSE LET o == load_orders(connect, c.st, order_rows)
             IN  [error |-> o.error, failed_at |-> o.failed_at, st |-> o.st]

(***************************************************************************)
(* run_demo: indexes, the catalog, the transaction demonstration.          *)
(***************************************************************************)
INDEXES == {"idx_orders_customer", "idx_orders_date", "idx_orders_status"}

TemporalRow == [first_name |-> "Temporal", last_name |-> "Test",
                email |-> "temporal@example.com", city |-> "Santiago"]

\* The two inserts of the demonstration inside their "with conn:" block, the
\* except clause, and the parameterized count that follows.
demo_tx_and_params(st) ==
    LET a == InsertCustomer(st, TemporalRow)
        b == InsertCustomer(a.st, TemporalRow)
        res == IF a.error # "none"
               THEN [error |-> a.error, failed_at |-> 1, st |-> st]
               ELSE IF b.error # "none"
               THEN [error |-> b.error, failed_at |-> 2, st |-> a.st]
               ELSE [error |-> "none", failed_at |-> 0, st |-> b.st]
        after == with_conn(st, res)
        \* except sqlite3.IntegrityError
        caught == res.error \in {"UNIQUE", "CHECK", "FOREIGN KEY"}
    IN  [error |-> IF caught THEN "none" ELSE res.error,
         caught |-> caught,
         failed_at |-> res.failed_at,
         st |-> after,
         \* SELECT COUNT(*) FROM customers WHERE city = ?  with ("Santiago",)
         city_count |-> Cardinality({c \in after.customers : c.city = "Santiago"})]

NoResults == [top_customers |-> <<>>, monthly_revenue |-> <<>>,
              category_city_matrix |-> <<>>, window_rank_in_city |-> <<>>,
              city_count |-> 0]

Outcome(op, error, failed_at, n_customers, n_orders, flags) ==
    [op |-> op, error |-> error, failed_at |-> failed_at,
     n_customers |-> n_customers, n_orders |-> n_orders, flags |-> flags]

(***************************************************************************)
(* The store of a fresh database file.                                     *)
(***************************************************************************)
Init ==
    /\ schema = {}
    /\ indexes = {}
    /\ customers = {}
    /\ orders = {}
    /\ results = NoResults
    /\ last = Outcome("none", "none", 0, 0, 0, {})

SetStore(st) ==
    /\ schema' = st.schema
    /\ indexes' = st.indexes
    /\ customers' = st.customers
    /\ orders' = st.orders

(***************************************************************************)
(* Batches handed to load_customers and load_orders.                       *)
(***************************************************************************)
LoadEmails == {Email(1), "temporal@example.com"}
LoadStatuses == {"PAID", "SHIPPED"}
LoadCustomerIds == {1, 2}
LoadCities == {"La Serena"}

CustomerRows == [first_name : SeedFirstNames, last_name : SeedLastNames,
                 email : LoadEmails, city : LoadCities]

OrderRows == [customer_id : LoadCustomerIds, order_date : SeedDates,
              category : SeedCategories, amount : SeedAmounts,
              status : LoadStatuses]

Batches(Rows) == UNION {[1..n -> Rows] : n \in 0..MaxBatch}

\* What a batch holds, told from the batch and the store before the call.
DuplicateEmail(rows, st) ==
    \/ \E i \in 1..Len(rows) : \E c \in st.customers : c.email = rows[i].email
    \/ \E i, j \in 1..Len(rows) : i # j /\ rows[i].email = rows[j].email

Orphan(rows, st) ==
    \E i \in 1..Len(rows) : \A c \in st.customers : c.customer_id # rows[i].customer_id

BadStatus(rows) == \E i \in 1..Len(rows) : rows[i].status \notin STATUSES

(***************************************************************************)
(* The operations.                                                         *)
(***************************************************************************)
\* init_db: create_schema on a new connection.
InitDb ==
    LET r == create_schema(Store)
    IN  /\ SetStore(r.st)
        /\ results' = NoResults
        /\ last' = Outcome("init_db", r.error, 0, 0, 0,
                           IF schema # {} THEN {"existed"} ELSE {})

\* load_customers(conn, rows) on a connection opened by connect().
LoadCustomers(rows) ==
    LET r == load_customers(connect, Store, rows)
    IN  /\ Cardinality(r.st.customers) <= MaxCustomers
        /\ SetStore(r.st)
        /\ results' = NoResults
        /\ last' = Outcome("load_customers", r.error, r.failed_at, Len(rows), 0,
                           IF DuplicateEmail(rows, Store) THEN {"dup_email"} ELSE {})

\* load_orders(conn, rows) on a connection opened by connect().
LoadOrders(rows) ==
    LET r == load_orders(connect, Store, rows)
    IN  /\ Cardinality(r.st.orders) <= MaxOrders
        /\ SetStore(r.st)
        /\ results' = NoResults
        /\ last' = Outcome("load_orders", r.error, r.failed_at, 0, Len(rows),
                           (IF Orphan(rows, Store) THEN {"orphan"} ELSE {})
                           \cup (IF BadStatus(rows) THEN {"bad_status"} ELSE {}))

\* seed_db(db_path, n_customers, n_orders).  The outcome records the two
\* counts only when rows were drawn.
SeedDb(n_customers, n_orders) ==
    IF SeedStops(Store)
    THEN /\ UNCHANGED <<schema, indexes, customers, orders>>
         /\ results' = NoResults
         /\ last' = IF "customers" \notin schema
                    THEN Outcome("seed_db", "OperationalError", 0, 0, 0, {})
                    ELSE Outcome("seed_db", "none", 0, 0, 0, {"skipped"})
    ELSE \E customer_rows \in make_customers(n_customers) :
         \E order_rows \in (IF make_orders_raises(n_orders, n_customers)
                            THEN {<<>>} ELSE make_orders(n_orders, n_customers)) :
             LET r == seed_db(Store, n_customers, n_orders, customer_rows, order_rows)
             IN  /\ Cardinality(r.st.customers) <= MaxCustomers
                 /\ Cardinality(r.st.orders) <= MaxOrders
                 /\ SetStore(r.st)
                 /\ results' = NoResults
                 /\ last' = Outcome("seed_db", r.error, r.failed_at,
                                    n_customers, n_orders, {})

\* run_demo(db_path): CREATE INDEX IF NOT EXISTS for each of INDEXES, the
\* four queries, then demo_tx_and_params.
RunDemo(tie) ==
    IF "orders" \notin schema
    THEN /\ UNCHANGED <<schema, indexes, customers, orders>>
         /\ results' = NoResults
         /\ last' = Outcome("run_demo", "OperationalError", 0, 0, 0, {})
    ELSE LET st == [Store EXCEPT !.indexes = @ \cup INDEXES]
             d == demo_tx_and_params(st)
         IN  /\ SetStore(d.st)
             /\ results' = [top_customers |-> top_customers(st, tie),
                            monthly_revenue |-> monthly_revenue(st),
                            category_city_matrix |-> category_city_matrix(st),
                            window_rank_in_city |-> window_rank_in_city(st, tie),
                            city_count |-> d.city_count]
             /\ last' = Outcome("run_demo", d.error, d.failed_at, 0, 0,
                                IF d.caught THEN {"caught"} ELSE {})

Next ==
    \/ InitDb
    \/ \E rows \in Batches(CustomerRows) : LoadCustomers(rows)
    \/ \E rows \in Batches(OrderRows) : LoadOrders(rows)
    \/ \E n_customers \in 0..MaxCustomers, n_orders \in 0..MaxOrders :
           SeedDb(n_customers, n_orders)
    \/ \E tie \in TieOrders : RunDemo(tie)

Spec == Init /\ [][Next]_vars

(***************************************************************************)
(* The stores the query catalog is checked on: what seed_db leaves in a    *)
(* fresh, initialised database for a family of draws.  Each customer drawn *)
(* has a city and a profile, the orders drawn for that customer.  Two      *)
(* families: few customers over every city and profile, and many customers *)
(* (more than LIMIT 10 lets through) over a few.  The queries treat        *)
(* customers alike but for the order of equal-revenue rows, which TieOrders*)
(* covers, so the draws are listed up to the order of the customers.       *)
(***************************************************************************)
Template(date, category, amount, status) ==
    [order_date |-> date, category |-> category, amount |-> amount, status |-> status]

Profiles ==
    << <<>>,
       << Template(<<2024, 1, 20>>, "Books", 50, "CANCELLED") >>,
       << Template(<<2024, 1, 15>>, "Books", 10, "PAID") >>,
       << Template(<<2024, 1, 15>>, "Books", 20, "PAID"),
          Template(<<2024, 1, 20>>, "Home", 50, "CANCELLED") >>,
       << Template(<<2023, 12, 30>>, "Home", 10, "PAID"),
          Template(<<2024, 2, 3>>, "Books", 20, "PAID") >>,
       << Template(<<2024, 2, 3>>, "Sports", 40, "PAID"),
          Template(<<2024, 2, 3>>, "Sports", 50, "REFUNDED") >> >>

DrawnFirstNames == <<"Ana", "Luis">>

MixedTypes ==
    << [city |-> "La Serena", profile |-> 1],
       [city |-> "La Serena", profile |-> 3] >>
    \o [p \in 1..Len(Profiles) |-> [city |-> "Santiago", profile |-> p]]

ManyTypes ==
    << [city |-> "La Serena", profile |-> 3],
       [city |-> "Santiago", profile |-> 1],
       [city |-> "Santiago", profile |-> 2],
       [city |-> "Santiago", profile |-> 4] >>

RECURSIVE NonDecreasing(_, _, _)
\* The sequences of length n over lo..hi that never decrease.
NonDecreasing(n, lo, hi) ==
    IF n = 0 THEN {<<>>}
    ELSE UNION {{<<t>> \o s : s \in NonDecreasing(n - 1, t, hi)} : t \in lo..hi}

Draws(types, max) == UNION {NonDecreasing(n, 1, Len(types)) : n \in 0..max}

DrawnCustomers(types, s) ==
    [i \in 1..Len(s) |->
        [first_name |-> DrawnFirstNames[((i - 1) % Len(DrawnFirstNames)) + 1],
         last_name |-> "Soto",
         email |-> Email(i - 1),
         city |-> types[s[i]].city]]

RECURSIVE DrawnOrders(_, _, _)
DrawnOrders(types, s, i) ==
    IF i > Len(s) THEN <<>>
    ELSE LET p == Profiles[types[s[i]].profile]
         IN  [k \in 1..Len(p) |->
                [customer_id |-> i, order_date |-> p[k].order_date,
                 category |-> p[k].category, amount |-> p[k].amount,
                 status |-> p[k].status]]
             \o DrawnOrders(types, s, i + 1)

Seeded(types, s) ==
    LET order_rows == DrawnOrders(types, s, 1)
    IN  [n_customers |-> Len(s), n_orders |-> Len(order_rows),
         st |-> seed_db(create_schema(EmptyStore).st, Len(s), Len(order_rows),
                        DrawnCustomers(types, s), order_rows).st]

QSeeds ==
    {Seeded(MixedTypes, s) : s \in Draws(MixedTypes, MaxMixedCustomers)}
    \cup {Seeded(ManyTypes, s) : s \in Draws(ManyTypes, MaxManyCustomers)}

QInit ==
    \E q \in QSeeds :
        /\ schema = q.st.schema
        /\ indexes = q.st.indexes
        /\ customers = q.st.customers
        /\ orders = q.st.orders
        /\ results = NoResults
        /\ last = Outcome("seed_db", "none", 0, q.n_customers, q.n_orders, {})

QNext == \E tie \in TieOrders : RunDemo(tie)

\* The query catalog on seeded stores.
QSpec == QInit /\ [][QNext]_vars

(***************************************************************************)
(* Properties.  What the properties say of the rows is told from the       *)
(* tables directly, not through the operators of the catalog.              *)
(***************************************************************************)
Ran(op) == last.op = op
Runs(op) == last'.op = op

StoreUnchanged == UNCHANGED <<schema, indexes, customers, orders>>

RECURSIVE SumAmounts(_)
SumAmounts(os) ==
    IF os = {} THEN 0
    ELSE LET o == CHOOSE x \in os : TRUE
         IN  o.amount + SumAmounts(os \ {o})

\* The revenue of a customer: the amounts of its orders of status PAID.
PaidSum(id) ==
    SumAmounts({o \in orders : o.customer_id = id /\ o.status = "PAID"})

HasOrders(c) == \E o \in orders : o.customer_id = c.customer_id

DemoRan == Ran("run_demo") /\ last.error = "none"

\* C1: demo_tx_and_params leaves the customer count as it found it: the
\* duplicate insert raises an integrity error that is caught, the first
\* insert is rolled back with it, and the count of customers by city that
\* follows is the count over the rows held before the demonstration.
C1_DemoRollsBack ==
    [][(Runs("run_demo") /\ "orders" \in schema) =>
          /\ last'.error = "none"
          /\ "caught" \in last'.flags
          /\ Cardinality(customers') = Cardinality(customers)
          /\ customers' = customers
          /\ orders' = orders
          /\ results'.city_count =
                Cardinality({c \in customers : c.city = "Santiago"})]_vars

\* The demonstration ran on a store that holds customers of Santiago and of
\* another city, and it was the second insert that failed.
C1_Witness ==
    /\ DemoRan
    /\ "caught" \in last.flags
    /\ last.failed_at = 2
    /\ results.city_count >= 1
    /\ Cardinality(customers) > results.city_count

\* C2: load_customers and load_orders are all-or-nothing.  A batch with no
\* violating row is committed whole; a batch with a violating row, at any
\* position, fails and leaves the table as it was.
C2_LoadsAreAtomic ==
    [][/\ (Runs("load_customers") /\ "customers" \in schema) =>
            /\ orders' = orders
            /\ \/ /\ last'.error = "none"
                  /\ "dup_email" \notin last'.flags
                  /\ customers \subseteq customers'
                  /\ Cardinality(customers') =
                        Cardinality(customers) + last'.n_customers
               \/ /\ last'.error # "none"
                  /\ "dup_email" \in last'.flags
                  /\ customers' = customers
       /\ (Runs("load_orders") /\ "orders" \in schema) =>
            /\ customers' = customers
            /\ \/ /\ last'.error = "none"
                  /\ last'.flags = {}
                  /\ orders \subseteq orders'
                  /\ Cardinality(orders') = Cardinality(orders) + last'.n_orders
               \/ /\ last'.error # "none"
                  /\ last'.flags # {}
                  /\ orders' = orders]_vars

\* A batch of orders failed at its second row or later, after rows of it had
\* been inserted.
C2_Witness ==
    /\ Ran("load_orders")
    /\ last.error # "none"
    /\ last.failed_at >= 2

\* C3: every order references an existing customer, in every reachable
\* state, and a load_orders batch with an order of a customer that does not
\* exist fails and leaves table orders unchanged.
C3_ReferentialIntegrity ==
    /\ [](\A o \in orders : \E c \in customers : c.customer_id = o.customer_id)
    /\ [][(Runs("load_orders") /\ "orphan" \in last'.flags) =>
             (last'.error # "none" /\ orders' = orders)]_vars

\* A batch failed on the foreign key against a table that holds orders.
C3_Witness ==
    /\ Ran("load_orders")
    /\ last.error = "FOREIGN KEY"
    /\ orders # {}

\* C4: every stored order has a status of the enumeration, in every
\* reachable state, and a load_orders batch with an order of any other
\* status fails.
C4_StatusDomain ==
    /\ [](\A o \in orders : o.status \in {"PAID", "CANCELLED", "REFUNDED"})
    /\ [][(Runs("load_orders") /\ "bad_status" \in last'.flags) =>
             (last'.error # "none" /\ orders' = orders)]_vars

\* A batch was rejected by the CHECK on status.
C4_Witness ==
    /\ Ran("load_orders")
    /\ last.error = "CHECK"
    /\ "bad_status" \in last.flags

\* C5: seed_db on a store that holds a customer inserts nothing, whatever
\* the counts asked for and whatever table orders holds.
C5_SeedSkips ==
    [][(Runs("seed_db") /\ customers # {}) =>
          /\ StoreUnchanged
          /\ last'.error = "none"
          /\ "skipped" \in last'.flags]_vars

\* seed_db was skipped on a store with customers and no order.
C5_Witness ==
    /\ Ran("seed_db")
    /\ "skipped" \in last.flags
    /\ customers # {}
    /\ orders = {}

\* C6: create_schema on a store where it has already run raises nothing and
\* leaves the tables and their rows as they were; on a new store it creates
\* the two tables.
C6_CreateSchemaIdempotent ==
    [][Runs("init_db") =>
          /\ last'.error = "none"
          /\ schema' = {"customers", "orders"}
          /\ (schema # {} => StoreUnchanged)
          /\ customers' = customers
          /\ orders' = orders]_vars

\* init_db ran on an initialised store that holds customers and orders.
C6_Witness ==
    /\ Ran("init_db")
    /\ "existed" \in last.flags
    /\ customers # {}
    /\ orders # {}

\* C10: seed_db on an initialised store without customers, asked for at
\* least one customer, ends without error with n_customers customers of
\* identities 1..n_customers and n_orders orders, each of a customer in
\* 1..n_customers; the customers are there whatever becomes of the orders.
C10_SeedLoadsCustomersFirst ==
    [][(Runs("seed_db") /\ "customers" \in schema /\ customers = {}) =>
          /\ {c.customer_id : c \in customers'} = 1..last'.n_customers
          /\ Cardinality(customers') = last'.n_customers
          /\ last'.n_customers >= 1 =>
                /\ last'.error = "none"
                /\ Cardinality(orders') = last'.n_orders
                /\ \A o \in orders' : o.customer_id \in 1..last'.n_customers]_vars

\* seed_db loaded customers and orders after run_demo (the only handler that
\* creates indexes) had run on the store, then still without customers.
C10_Witness ==
    /\ Ran("seed_db")
    /\ last.error = "none"
    /\ last.n_customers >= 2
    /\ last.n_orders >= 1
    /\ indexes # {}
    /\ orders # {}

\* C7: top_customers returns at most 10 rows, one per customer, each with
\* the customer's PAID revenue, which is positive; the rows are in
\* non-increasing order of revenue, no customer left out has more revenue
\* than a returned one, and a customer with revenue is left out only when
\* 10 rows are returned.
C7_TopCustomers ==
    DemoRan =>
        LET r == results.top_customers
            ids == {r[i].customer_id : i \in DOMAIN r}
            paying == {c \in customers : PaidSum(c.customer_id) > 0}
        IN  /\ Len(r) <= 10
            /\ Cardinality(ids) = Len(r)
            /\ \A i \in DOMAIN r :
                  /\ r[i].revenue = PaidSum(r[i].customer_id)
                  /\ r[i].revenue > 0
                  /\ \E c \in customers :
                        /\ c.customer_id = r[i].customer_id
                        /\ c.city = r[i].city
                        /\ c.first_name \o " " \o c.last_name = r[i].customer
            /\ \A i \in DOMAIN r : i < Len(r) => r[i].revenue >= r[i + 1].revenue
            /\ \A c \in customers : c.customer_id \notin ids =>
                  \A i \in DOMAIN r : PaidSum(c.customer_id) <= r[i].revenue
            /\ Len(r) = IF Cardinality(paying) < 10 THEN Cardinality(paying) ELSE 10

\* Ten rows came back while a paying customer was left out, from a store
\* that also holds a customer whose orders are all unpaid.
C7_Witness ==
    /\ DemoRan
    /\ Len(results.top_customers) = 10
    /\ \E c \in customers :
          /\ PaidSum(c.customer_id) > 0
          /\ \A i \in DOMAIN results.top_customers :
                results.top_customers[i].customer_id # c.customer_id
    /\ \E c \in customers : HasOrders(c) /\ PaidSum(c.customer_id) = 0

RankedIn(city) == {c \in customers : c.city = city /\ HasOrders(c)}

FourInOneCity(city) ==
    /\ Cardinality(RankedIn(city)) = 4
    /\ {PaidSum(c.customer_id) : c \in RankedIn(city)} = {40, 30, 20, 10}

\* C8: window_rank_in_city returns, for each city, the ranks 1..k once each,
\* k the smaller of 3 and the number of customers of the city with an order;
\* the row of rank n carries the n-th largest PAID revenue of those
\* customers, ties taking consecutive ranks; the rows are ordered by city,
\* then rank.  Four customers of one city with revenues 40, 30, 20, 10 give
\* the three rows 40, 30, 20.
C8_WindowRank ==
    DemoRan =>
        LET r == results.window_rank_in_city
            cities == {c.city : c \in customers} \cup {r[i].city : i \in DOMAIN r}
        IN  /\ \A city \in cities :
                  LET rows == {i \in DOMAIN r : r[i].city = city}
                      W == RankedIn(city)
                      k == IF Cardinality(W) < 3 THEN Cardinality(W) ELSE 3
                  IN  /\ Cardinality(rows) = k
                      /\ {r[i].rn : i \in rows} = 1..k
                      /\ \A i \in rows :
                            /\ Cardinality({c \in W : PaidSum(c.customer_id)
                                                        > r[i].revenue}) < r[i].rn
                            /\ r[i].rn <= Cardinality({c \in W :
                                    PaidSum(c.customer_id) >= r[i].revenue})
                            /\ \E c \in W :
                                  /\ PaidSum(c.customer_id) = r[i].revenue
                                  /\ c.first_name \o " " \o c.last_name = r[i].customer
                      /\ FourInOneCity(city) =>
                            {<<r[i].rn, r[i].revenue>> : i \in rows}
                                = {<<1, 40>>, <<2, 30>>, <<3, 20>>}
            /\ \A i, j \in DOMAIN r : i < j =>
                  \/ CityKey(r[i].city) < CityKey(r[j].city)
                  \/ r[i].city = r[j].city /\ r[i].rn < r[j].rn

\* The catalog ran on a store with four customers of Santiago of revenues
\* 40, 30, 20 and 10, and three rows of Santiago came back.
C8_Witness ==
    /\ DemoRan
    /\ FourInOneCity("Santiago")
    /\ Cardinality({i \in DOMAIN results.window_rank_in_city :
                        results.window_rank_in_city[i].city = "Santiago"}) = 3

\* C9: a customer without orders is in no row of top_customers, adds no row
\* to window_rank_in_city, and adds no row to category_city_matrix: every
\* row of the two comes from a customer with an order, no city has more
\* ranked rows than customers with an order, and a city whose customers all
\* lack orders has no row.
C9_NoOrdersNoRows ==
    DemoRan =>
        LET top == results.top_customers
            rank == results.window_rank_in_city
            matrix == results.category_city_matrix
        IN  /\ \A c \in customers : ~HasOrders(c) =>
                  \A i \in DOMAIN top : top[i].customer_id # c.customer_id
            /\ \A i \in DOMAIN rank :
                  /\ \E c \in RankedIn(rank[i].city) :
                        c.first_name \o " " \o c.last_name = rank[i].customer
                  /\ Cardinality({j \in DOMAIN rank : rank[j].city = rank[i].city})
                        <= Cardinality(RankedIn(rank[i].city))
            /\ \A i \in DOMAIN matrix :
                  \E c \in RankedIn(matrix[i].city) :
                      \E o \in orders : /\ o.customer_id = c.customer_id
                                        /\ o.category = matrix[i].category
            /\ \A c \in customers : RankedIn(c.city) = {} =>
                  /\ \A i \in DOMAIN rank : rank[i].city # c.city
                  /\ \A i \in DOMAIN matrix : matrix[i].city # c.city

\* The catalog ran and returned rows on a store where one city has only
\* customers without orders and another has a customer without orders next
\* to customers with orders.
C9_Witness ==
    /\ DemoRan
    /\ \E c \in customers : RankedIn(c.city) = {}
    /\ \E c \in customers : ~HasOrders(c) /\ RankedIn(c.city) # {}
    /\ Len(results.top_customers) > 0
    /\ Len(results.window_rank_in_city) > 0
    /\ Len(results.category_city_matrix) > 0

====
